---- MODULE Spec2Model ----
(***************************************************************************)
(* Authorization control plane of reprime-backend: the permission cache    *)
(* (src/auth/cache.rs), the OpenFGA client that it fronts                  *)
(* (src/auth/openfga.rs) and the JWT codec (src/auth/jwt.rs).              *)
(*                                                                         *)
(* Strings are sequences of one-character strings, so that key composition *)
(* (format!) and the prefix / suffix tests of the invalidations are        *)
(* computed the way the code computes them.                                *)
(***************************************************************************)
EXTENDS Integers, Sequences, FiniteSets, TLC

VARIABLES
    now,            \* Instant::now(), in clock ticks
    cache,          \* PermissionCache.cache: key -> CacheEntry
    default_ttl,    \* PermissionCache.default_ttl
    max_entries,    \* PermissionCache.max_entries
    cache_enabled,  \* config.auth.openfga.cache_enabled
    pc,             \* per caller: the await point the call is suspended at
    op,             \* per caller: the call in progress (or the last one made)
    entry,          \* per caller: the CacheEntry built by set_with_ttl, not yet inserted
    todo,           \* per caller: objects_to_invalidate still to be invalidated
    result,         \* per caller: what the last call returned
    utc,            \* Utc::now().timestamp(), in seconds
    expiration_hours, \* JwtService.expiration_hours
    token,          \* the token at hand: generated here, or presented from outside
    issued,         \* the arguments generate_token was given for it, if it was
    auth,           \* what extract_auth_context returned for it
    request,        \* the request in the middleware stack: header, path, route, extensions
    response,       \* the last response the stack returned
    reclaimer,      \* the spawned cleanup_task: where its loop stands, what its last sweep did
    shutdown,       \* the service has been dropped by its owner
    lock            \* the RwLock around the map: guards alive, tasks waiting in order

cacheVars == <<cache, default_ttl, max_entries, cache_enabled>>
callVars == <<pc, op, entry, todo, result>>
jwtVars == <<utc, expiration_hours, token, issued, auth>>
mwVars == <<request, response>>
taskVars == <<reclaimer, shutdown, lock>>
vars == <<now, cache, default_ttl, max_entries, cache_enabled, pc, op, entry, todo, result,
          utc, expiration_hours, token, issued, auth, request, response, reclaimer, shutdown,
          lock>>

(***************************************************************************)
(* Bounds of the model.                                                    *)
(***************************************************************************)
MaxTime == 2
MaxTtl == 1
MaxCap == 3

(***************************************************************************)
(* Strings.                                                                *)
(***************************************************************************)
starts_with(s, prefix) ==
    /\ Len(prefix) <= Len(s)
    /\ SubSeq(s, 1, Len(prefix)) = prefix

ends_with(s, suffix) ==
    /\ Len(suffix) <= Len(s)
    /\ SubSeq(s, Len(s) - Len(suffix) + 1, Len(s)) = suffix

(***************************************************************************)
(* Uuid: a value is a pair of nibbles here (the real one has 32); its      *)
(* Display form is lower-case hex, hyphenated.                             *)
(***************************************************************************)
HexLower == <<"0", "1", "2", "3", "4", "5", "6", "7", "8", "9", "a", "b", "c", "d", "e", "f">>
HexUpper == <<"0", "1", "2", "3", "4", "5", "6", "7", "8", "9", "A", "B", "C", "D", "E", "F">>

IsHex(c) == \E i \in 1..16 : HexLower[i] = c \/ HexUpper[i] = c
HexVal(c) == (CHOOSE i \in 1..16 : HexLower[i] = c \/ HexUpper[i] = c) - 1

UuidToString(u) == <<HexLower[u[1] + 1], "-", HexLower[u[2] + 1]>>

(* Uuid::parse_str takes the hyphenated and the simple form, in either case *)
IsUuidString(s) ==
    \/ Len(s) = 3 /\ IsHex(s[1]) /\ s[2] = "-" /\ IsHex(s[3])
    \/ Len(s) = 2 /\ IsHex(s[1]) /\ IsHex(s[2])

UuidParse(s) == <<HexVal(s[1]), HexVal(s[Len(s)])>>

U1 == <<10, 1>>
U2 == <<11, 2>>
Users == {U1, U2}

(***************************************************************************)
(* Authorization questions the callers ask. Q1 and Q2 share the object     *)
(* d:1 under different principals and relations; Q3 is another object of   *)
(* the principal of Q1.                                                    *)
(***************************************************************************)
Question(u, r, t, id) == [user_id |-> u, relation |-> r, object_type |-> t, object_id |-> id]

Q1 == Question(U1, <<"v">>, <<"d">>, <<"1">>)
Q2 == Question(U2, <<"e">>, <<"d">>, <<"1">>)
Q3 == Question(U1, <<"v">>, <<"d">>, <<"2">>)
Questions == {Q1, Q2, Q3}

(* Objects that relationships are written on or that are invalidated: the
   two objects of the questions, and an object whose type holds the key
   delimiter, so that ":v:d:1" is also the tail of the key of Q1. *)
Object(t, id) == [object_type |-> t, object_id |-> id]
ObjectOf(q) == Object(q.object_type, q.object_id)
Objects == {Object(<<"d">>, <<"1">>), Object(<<"d">>, <<"2">>), Object(<<"v", ":", "d">>, <<"1">>)}

cache_key(user_id, relation, object_type, object_id) ==
    UuidToString(user_id) \o <<":">> \o relation \o <<":">> \o object_type \o <<":">> \o object_id

KeyOf(q) == cache_key(q.user_id, q.relation, q.object_type, q.object_id)

(***************************************************************************)
(* CacheEntry.                                                             *)
(***************************************************************************)
(* an entry that lives for twice its time to live *)
CacheEntryNewDoubleTtl(value, ttl, t) ==
    [value |-> value, expires_at |-> t + ttl + ttl, overtaken |-> "no"]

(* CacheEntry::new at instant t. `overtaken` is bookkeeping of the model:
   "yes" when the remote engine gave this answer before a mutation of the
   question's object that it has applied since, the name of the mutating
   caller while that mutation is in flight, "no" otherwise *)
CacheEntryNew(value, ttl, t) == [value |-> value, expires_at |-> t + ttl, overtaken |-> "no"]

(* is_expired with the comparison turned round *)
is_expired_inverted(e, t) == t < e.expires_at

is_expired(e, t) == t > e.expires_at

None == [some |-> FALSE, value |-> FALSE]
Some(v) == [some |-> TRUE, value |-> v]

Restrict(c, keys) == [k \in keys |-> c[k]]

(* PermissionCache::get, at instant t *)
get(c, t, key) ==
    IF key \in DOMAIN c /\ ~is_expired(c[key], t) THEN Some(c[key].value) ELSE None

(* evict_expired with its filter turned round *)
evict_expired_inverted(c, t) == Restrict(c, {k \in DOMAIN c : is_expired(c[k], t)})

(* PermissionCache::evict_expired, at instant t *)
evict_expired(c, t) == Restrict(c, {k \in DOMAIN c : ~is_expired(c[k], t)})

(* the capacity branch of set_with_ttl: the map after the purge of stale
   entries, and how many keys `take` then picks *)
AfterPurge(c, t, cap) ==
    IF Cardinality(DOMAIN c) >= cap THEN evict_expired(c, t) ELSE c

TakeCount(c, t, cap) ==
    IF Cardinality(DOMAIN c) >= cap /\ Cardinality(DOMAIN AfterPurge(c, t, cap)) >= cap
    THEN Cardinality(DOMAIN AfterPurge(c, t, cap)) - cap + 1
    ELSE 0

(* cache.insert(key, entry) *)
Insert(c, key, e) == [k \in DOMAIN c \cup {key} |-> IF k = key THEN e ELSE c[k]]

(* set_with_ttl inserting first and making room afterwards *)
set_with_ttl_insert_first(c, t, cap, key, e, victims) ==
    Restrict(Insert(AfterPurge(c, t, cap), key, e),
             (DOMAIN AfterPurge(c, t, cap) \cup {key}) \ victims)

(* the critical section of set_with_ttl; `victims` are the keys that
   cache.keys().take(n) yields, any n of them in HashMap order *)
set_with_ttl(c, t, cap, key, e, victims) ==
    Insert(Restrict(AfterPurge(c, t, cap), DOMAIN AfterPurge(c, t, cap) \ victims), key, e)

Min(a, b) == IF a <= b THEN a ELSE b

(* take(n) yields n keys, or all of them when the map has fewer *)
Victims(c, t, cap) ==
    {v \in SUBSET DOMAIN AfterPurge(c, t, cap) :
        Cardinality(v) = Min(TakeCount(c, t, cap), Cardinality(DOMAIN AfterPurge(c, t, cap)))}

(* invalidate taking out every entry of the question's principal *)
invalidate_whole_user(c, key) ==
    Restrict(c, {k \in DOMAIN c : SubSeq(k, 1, 4) # SubSeq(key, 1, 4)})

(* PermissionCache::invalidate *)
invalidate(c, key) == Restrict(c, DOMAIN c \ {key})

(* invalidate_user matching the principal at the tail of the key *)
invalidate_user_suffix(c, user_id) ==
    Restrict(c, {k \in DOMAIN c : ~ends_with(k, <<":">> \o UuidToString(user_id))})

(* PermissionCache::invalidate_user *)
invalidate_user(c, user_id) ==
    Restrict(c, {k \in DOMAIN c : ~starts_with(k, UuidToString(user_id) \o <<":">>)})

(* invalidate_object matching "T:ID:" at the head of the key *)
invalidate_object_prefix(c, object_type, object_id) ==
    Restrict(c, {k \in DOMAIN c : ~starts_with(k, object_type \o <<":">> \o object_id \o <<":">>)})

(* invalidate_object matching the object id alone *)
invalidate_object_by_id(c, object_type, object_id) ==
    Restrict(c, {k \in DOMAIN c : ~ends_with(k, <<":">> \o object_id)})

(* PermissionCache::invalidate_object *)
invalidate_object(c, object_type, object_id) ==
    Restrict(c, {k \in DOMAIN c : ~ends_with(k, <<":">> \o object_type \o <<":">> \o object_id)})

EmptyCache == [k \in {} |-> None]

Size(c) == Cardinality(DOMAIN c)

(***************************************************************************)
(* Callers. A call is cut at its await points: the wait for the remote     *)
(* engine's response and the wait for the cache's write lock. A section    *)
(* that holds the lock has no await in it and is one step.                 *)
(***************************************************************************)
Procs == {"c1", "c2"}

(* the caller of the specifications in which calls are made one at a time *)
Callers == {"c1"}

NoQuestion == Question(<<0, 0>>, <<>>, <<>>, <<>>)
NoEntry == [value |-> FALSE, expires_at |-> -1, overtaken |-> "no"]

Call(name, q) == [name |-> name, q |-> q]
NoCall == Call("none", NoQuestion)

(* What a call returned. `removed` (entries the call took out of the map),
   `requests` (requests the call sent to the remote engine) and `overlapped`
   (another call for the same question was in flight when this one stored
   its answer) are bookkeeping of the model, not values the code returns. *)
NoResult == [kind |-> "none"]
Unit(removed, requests) == [kind |-> "unit", removed |-> removed, requests |-> requests]
Found(v) == [kind |-> "get", value |-> v]
Err(msg) == [kind |-> "err", msg |-> msg]
AuthorizationResult(allowed, reason, requests) ==
    [kind |-> "decision", allowed |-> allowed, reason |-> reason, requests |-> requests,
     overlapped |-> FALSE]

(* check_permission's answer on a cache hit *)
CachedResult(cached_result) ==
    AuthorizationResult(cached_result,
                        IF cached_result THEN "None" ELSE "Permission denied (cached)", 0)

(* check_permission's answer from the remote engine *)
RemoteResult(allowed) ==
    AuthorizationResult(allowed,
                        IF allowed THEN "None" ELSE "Permission denied by OpenFGA", 1)

(* What the remote engine's endpoint can answer a request with *)
CheckOutcomes == {"transport_error", "status_error", "parse_error", "allowed", "denied"}
WriteOutcomes == {"transport_error", "status_error", "success"}

(* What the liveness endpoint can answer *)
HealthOutcomes == {"transport_error", "success_status", "failure_status"}

(* health_check's Ok(bool) *)
Health(v) == [kind |-> "health", value |-> v]

(* The lists given to batch_write_relationships; the last is one tuple on
   the object of type v whose id is "d:1" *)
BatchLists ==
    {<<>>, <<Q1>>, <<Q1, Q2>>, <<Q3, Q1>>, <<Question(U2, <<"e">>, <<"v">>, <<"d", ":", "1">>)>>}

Capacities == 0..MaxCap

(***************************************************************************)
(* JwtService. A token is its header's alg, its claims and its signature;  *)
(* the signature is the HMAC of header and claims under a secret, modelled *)
(* as the triple itself, so that it verifies exactly under the same secret *)
(* over the same header and claims.                                        *)
(***************************************************************************)
SecondsPerHour == 3600
Leeway == 60
Secret == "jwt_secret"

NoToken == [alg |-> "none", claims |-> [shape |-> "none"], sig |-> <<>>]
NoIssue == [given |-> FALSE]
NoAuth == [kind |-> "none"]

Sign(secret, alg, claims) == <<secret, alg, claims>>
encode(alg, claims, secret) == [alg |-> alg, claims |-> claims, sig |-> Sign(secret, alg, claims)]

Claims(sub, email, username, roles, exp, iat) ==
    [shape |-> "claims", sub |-> sub, email |-> email, username |-> username,
     roles |-> roles, exp |-> exp, iat |-> iat]

(* generate_token with email and username in each other's place *)
generate_token_swapped(user_id, email, username, roles, hours, t) ==
    encode("HS256",
           Claims(UuidToString(user_id), username, email, roles, t + hours * SecondsPerHour, t),
           Secret)

(* generate_token at instant t *)
generate_token(user_id, email, username, roles, hours, t) ==
    encode("HS256",
           Claims(UuidToString(user_id), email, username, roles, t + hours * SecondsPerHour, t),
           Secret)

AuthOk(ctx, t) == [kind |-> "ok", ctx |-> ctx, at |-> t]
AuthErr(msg, t) == [kind |-> "err", msg |-> msg, at |-> t]

AuthContext(user_id, email, username, roles) ==
    [user_id |-> user_id, email |-> email, username |-> username, roles |-> roles]

(* decode::<Claims> under Validation::new(HS256) with validate_exp: the
   header's algorithm, the signature, the shape of the claims, and exp
   against the clock less the validation's leeway *)
validate_token(tk, t) ==
    /\ tk.alg = "HS256"
    /\ tk.sig = Sign(Secret, tk.alg, tk.claims)
    /\ tk.claims.shape = "claims"
    /\ ~(tk.claims.exp < t - Leeway)

(* extract_auth_context at instant t *)
extract_auth_context(tk, t) ==
    IF ~validate_token(tk, t) THEN AuthErr("Invalid token", t)
    ELSE IF ~IsUuidString(tk.claims.sub) THEN AuthErr("Invalid user ID in token", t)
    ELSE AuthOk(AuthContext(UuidParse(tk.claims.sub), tk.claims.email,
                            tk.claims.username, tk.claims.roles), t)

Emails == {"a@example.com", "b@example.com"}
Usernames == {"alice", "bob"}
RoleLists == {<<>>, <<"user">>, <<"user", "admin">>, <<"admin", "user">>}
Hours == {0, 1, 24}

(* the instants the wall clock is read at *)
TimePoints == {0, 1, 59, 60, 61, 3599, 3600, 3601, 3660, 3661, 86400, 86401, 86460, 86461}

(* tokens made elsewhere: signed with this secret (an expiration of the
   maker's choosing, a subject that is no uuid, claims of another shape),
   signed with another secret, or under another algorithm *)
ForeignTokens ==
    {encode("HS256", Claims(UuidToString(U1), "a@example.com", "alice", <<"user">>, e, 0), Secret) :
        e \in {0, 60, 3600}}
    \cup {encode("HS256", Claims(<<"n", "o">>, "a@example.com", "alice", <<"user">>, 3600, 0), Secret),
          encode("HS256", [shape |-> "other"], Secret),
          encode("HS256", Claims(UuidToString(U1), "a@example.com", "alice", <<"admin">>, 3600, 0), "other_secret"),
          encode("HS384", Claims(UuidToString(U1), "a@example.com", "alice", <<"admin">>, 3600, 0), Secret)}

(***************************************************************************)
(* The middleware stack (src/auth/middleware.rs). A header value is a      *)
(* sequence of characters; "é" stands for a byte outside visible ASCII.    *)
(* The compact serialization of a token is one character of the header,    *)
(* naming the token it decodes to; any other text decodes to no token.     *)
(***************************************************************************)
UNAUTHORIZED == 401
FORBIDDEN == 403
BAD_REQUEST == 400
INTERNAL_SERVER_ERROR == 500

NoHeader == [present |-> FALSE, value |-> <<>>]
HeaderValue(value) == [present |-> TRUE, value |-> value]

(* HeaderValue::to_str *)
to_str(value) ==
    IF \A i \in 1..Len(value) : value[i] # "é" THEN Some(value) ELSE [some |-> FALSE, value |-> <<>>]

(* headers.get("authorization").and_then(|h| h.to_str().ok()) *)
authorization(h) ==
    IF h.present THEN to_str(h.value) ELSE [some |-> FALSE, value |-> <<>>]

Ok(value) == [ok |-> TRUE, value |-> value, msg |-> ""]
Fail(msg) == [ok |-> FALSE, value |-> <<>>, msg |-> msg]

Bearer == <<"B", "e", "a", "r", "e", "r", " ">>

(* extract_token_from_header testing for "Bearer" without the space *)
extract_token_from_header_no_space(auth_header) ==
    IF ~starts_with(auth_header, SubSeq(Bearer, 1, 6))
    THEN Fail("Invalid authorization header format")
    ELSE Ok(SubSeq(auth_header, 7 + 1, Len(auth_header)))

(* JwtService::extract_token_from_header *)
extract_token_from_header(auth_header) ==
    IF ~starts_with(auth_header, Bearer)
    THEN Fail("Invalid authorization header format")
    ELSE Ok(SubSeq(auth_header, 7 + 1, Len(auth_header)))

(* the tokens that travel in headers: two made by generate_token at instant
   0 with a lifetime of an hour, one signed with another secret, one whose
   subject is no uuid, one whose claims have another shape *)
WireTokens ==
    [G |-> generate_token(U1, "a@example.com", "alice", <<"user">>, 1, 0),
     A |-> generate_token(U2, "b@example.com", "bob", <<"user", "admin">>, 1, 0),
     F |-> encode("HS256", Claims(UuidToString(U1), "a@example.com", "alice", <<"admin">>, 3600, 0),
                  "other_secret"),
     N |-> encode("HS256", Claims(<<"n", "o">>, "a@example.com", "alice", <<"user">>, 3600, 0), Secret),
     M |-> encode("HS256", [shape |-> "other"], Secret)]

(* the token a compact serialization decodes to *)
decode_token(text) ==
    IF Len(text) = 1 /\ text[1] \in DOMAIN WireTokens THEN WireTokens[text[1]] ELSE NoToken

(* the error decode::<Claims> fails with, in the order it makes its tests *)
decode_error(tk, t) ==
    IF tk = NoToken THEN "InvalidToken"
    ELSE IF tk.alg # "HS256" THEN "InvalidAlgorithm"
    ELSE IF tk.sig # Sign(Secret, tk.alg, tk.claims) THEN "InvalidSignature"
    ELSE IF tk.claims.shape # "claims" THEN "JSON error"
    ELSE IF tk.claims.exp < t - Leeway THEN "ExpiredSignature"
    ELSE "none"

(* has_role satisfied by any role at all *)
has_role_any_role_at_all(auth_context, required_role) ==
    Len(auth_context.roles) >= 1

(* JwtService::has_role *)
has_role(auth_context, required_role) ==
    \E i \in 1..Len(auth_context.roles) : auth_context.roles[i] = required_role

(* JwtService::has_any_role *)
has_any_role(auth_context, required_roles) ==
    \E j \in 1..Len(required_roles) :
        \E i \in 1..Len(auth_context.roles) : auth_context.roles[i] = required_roles[j]

Hyphens(segment) == Cardinality({i \in 1..Len(segment) : segment[i] = "-"})

(* a path segment that looks like a uuid: the length and the number of
   hyphens of a uuid's text (36 and 4 in the code, for 32 nibbles) *)
UuidLike(segment) ==
    /\ Len(segment) = Len(UuidToString(U1))
    /\ Hyphens(segment) = Hyphens(UuidToString(U1))

(* extract_object_id_from_request: the first such segment of the path *)
extract_object_id_from_request(path) ==
    IF \E i \in 1..Len(path) : UuidLike(path[i])
    THEN Some(path[CHOOSE i \in 1..Len(path) :
                      UuidLike(path[i]) /\ \A j \in 1..(i - 1) : ~UuidLike(path[j])])
    ELSE [some |-> FALSE, value |-> <<>>]

NoContext == [some |-> FALSE, value |-> AuthContext(<<0, 0>>, "", "", <<>>)]

Gate(kind, roles, relation, object_type) ==
    [kind |-> kind, roles |-> roles, relation |-> relation, object_type |-> object_type]
Route(auth_layer, gate) == [auth |-> auth_layer, gate |-> gate]

Request(header, path, route, extensions, stage, bearer, forwarded) ==
    [header |-> header, path |-> path, route |-> route, extensions |-> extensions,
     stage |-> stage, bearer |-> bearer, forwarded |-> forwarded]
NoRequest ==
    Request(NoHeader, <<>>, Route("none", Gate("none", <<>>, <<>>, <<>>)), NoContext, "none",
            Fail("none"), 0)

(* a response: `by` (the layer that made it) and `extensions` (the identity
   context the handler saw) are bookkeeping of the model *)
Response(status, body, by, extensions) ==
    [status |-> status, body |-> body, by |-> by, extensions |-> extensions]
NoResponse == Response(0, <<>>, "none", NoContext)

(* the task running cleanup_task: `pc` is the await its loop is suspended
   at ("tick": interval.tick(), "lock": cache.write()); `removed` and `kept`
   (what its last sweep took out and left in) are bookkeeping of the model *)
Task(at, removed, kept) == [pc |-> at, removed |-> removed, kept |-> kept]
NoTask == Task("off", 0, 0)

(* tokio's RwLock: the read guards and the write guard alive, and the tasks
   waiting for one, first come first served. Outside SpecLock a section
   that holds the lock is one step and the lock stays free. *)
NoLock == [readers |-> {}, writer |-> "none", waiters |-> <<>>]
Waiter(t, mode) == [task |-> t, mode |-> mode]

InitJwt ==
    /\ now = 0
    /\ cache = EmptyCache
    /\ cache_enabled = TRUE
    /\ default_ttl = MaxTtl
    /\ max_entries = MaxCap
    /\ pc = [p \in Procs |-> "idle"]
    /\ op = [p \in Procs |-> NoCall]
    /\ entry = [p \in Procs |-> NoEntry]
    /\ todo = [p \in Procs |-> <<>>]
    /\ result = [p \in Procs |-> NoResult]
    /\ utc = 0
    /\ expiration_hours \in Hours
    /\ token = NoToken
    /\ issued = NoIssue
    /\ auth = NoAuth
    /\ request = NoRequest
    /\ response = NoResponse
    /\ reclaimer = NoTask
    /\ shutdown = FALSE
    /\ lock = NoLock

(* the wall clock moves on *)
AdvanceClock(t) ==
    /\ t > utc
    /\ utc' = t
    /\ UNCHANGED <<mwVars, taskVars, now, cacheVars, callVars, expiration_hours, token, issued, auth>>

(* jwt_service.generate_token(user_id, email, username, roles) *)
GenerateToken(user_id, email, username, roles) ==
    /\ token' = generate_token(user_id, email, username, roles, expiration_hours, utc)
    /\ issued' = [given |-> TRUE, user_id |-> user_id, email |-> email,
                  username |-> username, roles |-> roles]
    /\ auth' = NoAuth
    /\ UNCHANGED <<mwVars, taskVars, now, cacheVars, callVars, utc, expiration_hours>>

(* a token from outside arrives *)
PresentToken(tk) ==
    /\ token' = tk
    /\ issued' = NoIssue
    /\ auth' = NoAuth
    /\ UNCHANGED <<mwVars, taskVars, now, cacheVars, callVars, utc, expiration_hours>>

(* jwt_service.extract_auth_context(token) *)
ExtractAuthContext ==
    /\ token # NoToken
    /\ auth' = extract_auth_context(token, utc)
    /\ UNCHANGED <<mwVars, taskVars, now, cacheVars, callVars, utc, expiration_hours, token, issued>>

NextJwt ==
    \/ \E t \in TimePoints : AdvanceClock(t)
    \/ \E user_id \in Users, email \in Emails, username \in Usernames, roles \in RoleLists :
          GenerateToken(user_id, email, username, roles)
    \/ \E tk \in ForeignTokens : PresentToken(tk)
    \/ ExtractAuthContext

SpecJwt == InitJwt /\ [][NextJwt]_vars

Init ==
    /\ now = 0
    /\ cache = EmptyCache
    /\ cache_enabled \in BOOLEAN
    /\ default_ttl \in (IF cache_enabled THEN 0..MaxTtl ELSE {0})
    /\ max_entries \in (IF cache_enabled THEN Capacities ELSE {1})
    /\ pc = [p \in Procs |-> "idle"]
    /\ op = [p \in Procs |-> NoCall]
    /\ entry = [p \in Procs |-> NoEntry]
    /\ todo = [p \in Procs |-> <<>>]
    /\ result = [p \in Procs |-> NoResult]
    /\ utc = 0
    /\ expiration_hours = 24
    /\ token = NoToken
    /\ issued = NoIssue
    /\ auth = NoAuth
    /\ request = NoRequest
    /\ response = NoResponse
    /\ reclaimer = (IF cache_enabled THEN Task("tick", 0, 0) ELSE NoTask)
    /\ shutdown = FALSE
    /\ lock = NoLock

(* the clock advances *)
Tick ==
    /\ now < MaxTime
    /\ now' = now + 1
    /\ UNCHANGED <<mwVars, taskVars, jwtVars, cacheVars, callVars>>

(* ----- PermissionCache ------------------------------------------------ *)

(* get taking a stale entry out of the map as it reports the miss *)
GetRemovesStale(p, q) ==
    /\ pc[p] = "idle"
    /\ op' = [op EXCEPT ![p] = Call("get", q)]
    /\ result' = [result EXCEPT ![p] = Found(get(cache, now, KeyOf(q)))]
    /\ cache' = IF get(cache, now, KeyOf(q)).some THEN cache ELSE invalidate(cache, KeyOf(q))
    /\ UNCHANGED <<mwVars, taskVars, jwtVars, now, default_ttl, max_entries, cache_enabled, pc, entry, todo>>

(* cache.get(q): one read-locked section *)
Get(p, q) ==
    /\ pc[p] = "idle"
    /\ op' = [op EXCEPT ![p] = Call("get", q)]
    /\ result' = [result EXCEPT ![p] = Found(get(cache, now, KeyOf(q)))]
    /\ UNCHANGED <<mwVars, taskVars, jwtVars, now, cacheVars, pc, entry, todo>>

(* cache.set(q, v) = set_with_ttl(q, v, default_ttl), up to the wait for the
   write lock: the entry, and with it the expiration instant, is built
   before the wait *)
SetCall(p, q, v) ==
    /\ pc[p] = "idle"
    /\ op' = [op EXCEPT ![p] = Call("set", q)]
    /\ entry' = [entry EXCEPT ![p] = CacheEntryNew(v, default_ttl, now)]
    /\ pc' = [pc EXCEPT ![p] = "set_lock"]
    /\ result' = [result EXCEPT ![p] = NoResult]
    /\ UNCHANGED <<mwVars, taskVars, jwtVars, now, cacheVars, todo>>

(* ... and its write-locked section *)
SetCommit(p) ==
    /\ pc[p] = "set_lock"
    /\ \E victims \in Victims(cache, now, max_entries) :
          cache' = set_with_ttl(cache, now, max_entries, KeyOf(op[p].q), entry[p], victims)
    /\ entry' = [entry EXCEPT ![p] = NoEntry]
    /\ pc' = [pc EXCEPT ![p] = "idle"]
    /\ result' = [result EXCEPT ![p] =
                     Unit(Cardinality(DOMAIN cache \ DOMAIN cache'), 0)]
    /\ UNCHANGED <<mwVars, taskVars, jwtVars, now, default_ttl, max_entries, cache_enabled, op, todo>>

(* cache.invalidate(q) *)
Invalidate(p, q) ==
    /\ pc[p] = "idle"
    /\ op' = [op EXCEPT ![p] = Call("invalidate", q)]
    /\ cache' = invalidate(cache, KeyOf(q))
    /\ result' = [result EXCEPT ![p] = Unit(Size(cache) - Size(cache'), 0)]
    /\ UNCHANGED <<mwVars, taskVars, jwtVars, now, default_ttl, max_entries, cache_enabled, pc, entry, todo>>

(* cache.invalidate_user(u) *)
InvalidateUser(p, u) ==
    /\ pc[p] = "idle"
    /\ op' = [op EXCEPT ![p] = Call("invalidate_user", Question(u, <<>>, <<>>, <<>>))]
    /\ cache' = invalidate_user(cache, u)
    /\ result' = [result EXCEPT ![p] = Unit(Size(cache) - Size(cache'), 0)]
    /\ UNCHANGED <<mwVars, taskVars, jwtVars, now, default_ttl, max_entries, cache_enabled, pc, entry, todo>>

(* cache.invalidate_object(t, id) *)
InvalidateObject(p, o) ==
    /\ pc[p] = "idle"
    /\ op' = [op EXCEPT ![p] =
                 Call("invalidate_object", Question(<<0, 0>>, <<>>, o.object_type, o.object_id))]
    /\ cache' = invalidate_object(cache, o.object_type, o.object_id)
    /\ result' = [result EXCEPT ![p] = Unit(Size(cache) - Size(cache'), 0)]
    /\ UNCHANGED <<mwVars, taskVars, jwtVars, now, default_ttl, max_entries, cache_enabled, pc, entry, todo>>

(* cache.clear() *)
Clear(p) ==
    /\ pc[p] = "idle"
    /\ op' = [op EXCEPT ![p] = Call("clear", NoQuestion)]
    /\ cache' = EmptyCache
    /\ result' = [result EXCEPT ![p] = Unit(Size(cache), 0)]
    /\ UNCHANGED <<mwVars, taskVars, jwtVars, now, default_ttl, max_entries, cache_enabled, pc, entry, todo>>

(* one turn of cleanup_task's loop; the task is spawned only when the cache
   is enabled *)
Sweep ==
    /\ cache_enabled
    /\ cache' = evict_expired(cache, now)
    /\ UNCHANGED <<mwVars, taskVars, jwtVars, now, default_ttl, max_entries, cache_enabled, callVars>>

(* ----- OpenFgaService ------------------------------------------------- *)

(* check_permission sending nothing while another call asks the same *)
check_permission_single_flight(p, q) ==
    /\ pc[p] = "idle"
    /\ op' = [op EXCEPT ![p] = Call("check", q)]
    /\ IF get(cache, now, KeyOf(q)).some
       THEN /\ result' = [result EXCEPT ![p] = CachedResult(get(cache, now, KeyOf(q)).value)]
            /\ pc' = pc
       ELSE /\ result' = [result EXCEPT ![p] = NoResult]
            /\ pc' = IF \E o \in Procs \ {p} : pc[o] \in {"check_send", "check_lock"} /\ op[o].q = q
                     THEN pc
                     ELSE [pc EXCEPT ![p] = "check_send"]
    /\ UNCHANGED <<taskVars, jwtVars, now, cacheVars, entry, todo>>

(* check_permission: the cache lookup; on a miss the request is sent *)
check_permission(p, q) ==
    /\ pc[p] = "idle"
    /\ op' = [op EXCEPT ![p] = Call("check", q)]
    /\ IF get(cache, now, KeyOf(q)).some
       THEN /\ result' = [result EXCEPT ![p] = CachedResult(get(cache, now, KeyOf(q)).value)]
            /\ pc' = pc
       ELSE /\ result' = [result EXCEPT ![p] = NoResult]
            /\ pc' = [pc EXCEPT ![p] = "check_send"]
    /\ UNCHANGED <<taskVars, jwtVars, now, cacheVars, entry, todo>>

(* ... called by a holder of the service *)
CheckStart(p, q) ==
    /\ check_permission(p, q)
    /\ UNCHANGED mwVars

(* check_permission remembering a failed request as a denial *)
CheckResponseCachesFailure(p, outcome) ==
    /\ pc[p] = "check_send"
    /\ IF outcome \in {"allowed", "denied"}
       THEN /\ entry' = [entry EXCEPT ![p] = CacheEntryNew(outcome = "allowed", default_ttl, now)]
            /\ pc' = [pc EXCEPT ![p] = "check_lock"]
            /\ result' = result
            /\ cache' = cache
       ELSE /\ entry' = entry
            /\ pc' = [pc EXCEPT ![p] = "idle"]
            /\ result' = [result EXCEPT ![p] = Err(outcome)]
            /\ cache' = Insert(cache, KeyOf(op[p].q), CacheEntryNew(FALSE, default_ttl, now))
    /\ UNCHANGED <<mwVars, taskVars, jwtVars, now, default_ttl, max_entries, cache_enabled, op, todo>>

(* check_permission: the response arrives; a failure is returned, an
   answer is handed to cache.set, which builds the entry *)
CheckResponse(p, outcome) ==
    /\ pc[p] = "check_send"
    /\ IF outcome \in {"allowed", "denied"}
       THEN /\ entry' = [entry EXCEPT ![p] = CacheEntryNew(outcome = "allowed", default_ttl, now)]
            /\ pc' = [pc EXCEPT ![p] = "check_lock"]
            /\ result' = result
       ELSE /\ entry' = entry
            /\ pc' = [pc EXCEPT ![p] = "idle"]
            /\ result' = [result EXCEPT ![p] = Err(outcome)]
    /\ UNCHANGED <<mwVars, taskVars, jwtVars, now, cacheVars, op, todo>>

(* check_permission: cache.set's write-locked section, and the return *)
CheckCommit(p) ==
    /\ pc[p] = "check_lock"
    /\ \E victims \in Victims(cache, now, max_entries) :
          cache' = set_with_ttl(cache, now, max_entries, KeyOf(op[p].q), entry[p], victims)
    /\ entry' = [entry EXCEPT ![p] = NoEntry]
    /\ pc' = [pc EXCEPT ![p] = "idle"]
    /\ result' = [result EXCEPT ![p] =
                     [RemoteResult(entry[p].value) EXCEPT !.overlapped =
                         \E o \in Procs \ {p} : /\ pc[o] \in {"check_send", "check_lock"}
                                                 /\ op[o].q = op[p].q]]
    /\ UNCHANGED <<mwVars, taskVars, jwtVars, now, default_ttl, max_entries, cache_enabled, op, todo>>

(* the answers about `objects` that checks in flight hold already when
   caller p sends a mutation of them: the engine gave each before it can
   apply the mutation *)
Precede(entries, p, objects) ==
    [o \in Procs |->
        IF pc[o] = "check_lock" /\ ObjectOf(op[o].q) \in objects /\ entries[o].overtaken = "no"
        THEN [entries[o] EXCEPT !.overtaken = p]
        ELSE entries[o]]

(* ... and what becomes of them when the engine reports the mutation of
   caller p applied, or refused *)
Overtake(entries, p, applied) ==
    [o \in Procs |->
        IF entries[o].overtaken = p
        THEN [entries[o] EXCEPT !.overtaken = IF applied THEN "yes" ELSE "no"]
        ELSE entries[o]]

(* write_relationship / delete_relationship: the request is sent *)
WriteStart(p, name, u, r, o) ==
    /\ pc[p] = "idle"
    /\ op' = [op EXCEPT ![p] = Call(name, Question(u, r, o.object_type, o.object_id))]
    /\ pc' = [pc EXCEPT ![p] = "write_send"]
    /\ result' = [result EXCEPT ![p] = NoResult]
    /\ entry' = Precede(entry, p, {o})
    /\ UNCHANGED <<mwVars, taskVars, jwtVars, now, cacheVars, todo>>

(* ... the response arrives *)
WriteResponse(p, outcome) ==
    /\ pc[p] = "write_send"
    /\ IF outcome = "success"
       THEN /\ pc' = [pc EXCEPT ![p] = "write_lock"]
            /\ result' = result
            /\ entry' = Overtake(entry, p, TRUE)
       ELSE /\ pc' = [pc EXCEPT ![p] = "idle"]
            /\ result' = [result EXCEPT ![p] = Err(outcome)]
            /\ entry' = Overtake(entry, p, FALSE)
    /\ UNCHANGED <<mwVars, taskVars, jwtVars, now, cacheVars, op, todo>>

(* ... cache.invalidate_object, and the return *)
WriteInvalidate(p) ==
    /\ pc[p] = "write_lock"
    /\ cache' = invalidate_object(cache, op[p].q.object_type, op[p].q.object_id)
    /\ pc' = [pc EXCEPT ![p] = "idle"]
    /\ result' = [result EXCEPT ![p] = Unit(Size(cache) - Size(cache'), 1)]
    /\ UNCHANGED <<mwVars, taskVars, jwtVars, now, default_ttl, max_entries, cache_enabled, op, entry, todo>>

(* batch_write_relationships: an empty list returns at once, any other is
   sent as one request *)
BatchStart(p, list) ==
    /\ pc[p] = "idle"
    /\ op' = [op EXCEPT ![p] = Call("batch_write", NoQuestion)]
    /\ IF list = <<>>
       THEN /\ pc' = pc
            /\ todo' = todo
            /\ result' = [result EXCEPT ![p] = Unit(0, 0)]
            /\ entry' = entry
       ELSE /\ pc' = [pc EXCEPT ![p] = "batch_send"]
            /\ todo' = [todo EXCEPT ![p] = [i \in 1..Len(list) |-> ObjectOf(list[i])]]
            /\ result' = [result EXCEPT ![p] = NoResult]
            /\ entry' = Precede(entry, p, {ObjectOf(list[i]) : i \in 1..Len(list)})
    /\ UNCHANGED <<mwVars, taskVars, jwtVars, now, cacheVars>>

(* ... the response arrives *)
BatchResponse(p, outcome) ==
    /\ pc[p] = "batch_send"
    /\ IF outcome = "success"
       THEN /\ pc' = [pc EXCEPT ![p] = "batch_lock"]
            /\ todo' = todo
            /\ result' = result
            /\ entry' = Overtake(entry, p, TRUE)
       ELSE /\ pc' = [pc EXCEPT ![p] = "idle"]
            /\ todo' = [todo EXCEPT ![p] = <<>>]
            /\ result' = [result EXCEPT ![p] = Err(outcome)]
            /\ entry' = Overtake(entry, p, FALSE)
    /\ UNCHANGED <<mwVars, taskVars, jwtVars, now, cacheVars, op>>

(* ... one turn of the loop over objects_to_invalidate; the call returns
   after the last *)
BatchInvalidate(p) ==
    /\ pc[p] = "batch_lock"
    /\ cache' = invalidate_object(cache, Head(todo[p]).object_type, Head(todo[p]).object_id)
    /\ todo' = [todo EXCEPT ![p] = Tail(todo[p])]
    /\ IF Len(todo[p]) = 1
       THEN /\ pc' = [pc EXCEPT ![p] = "idle"]
            /\ result' = [result EXCEPT ![p] = Unit(0, 1)]
       ELSE /\ pc' = pc
            /\ result' = result
    /\ UNCHANGED <<mwVars, taskVars, jwtVars, now, default_ttl, max_entries, cache_enabled, op, entry>>

(* health_check: the request to the liveness endpoint is sent *)
HealthStart(p) ==
    /\ pc[p] = "idle"
    /\ op' = [op EXCEPT ![p] = Call("health_check", NoQuestion)]
    /\ pc' = [pc EXCEPT ![p] = "health_send"]
    /\ result' = [result EXCEPT ![p] = NoResult]
    /\ UNCHANGED <<mwVars, taskVars, jwtVars, now, cacheVars, entry, todo>>

(* health_check answering false when the endpoint cannot be reached *)
HealthResponseCoercesFailure(p, outcome) ==
    /\ pc[p] = "health_send"
    /\ pc' = [pc EXCEPT ![p] = "idle"]
    /\ result' = [result EXCEPT ![p] = Health(outcome = "success_status")]
    /\ UNCHANGED <<mwVars, taskVars, jwtVars, now, cacheVars, op, entry, todo>>

(* ... the response arrives, or the request fails *)
HealthResponse(p, outcome) ==
    /\ pc[p] = "health_send"
    /\ pc' = [pc EXCEPT ![p] = "idle"]
    /\ result' = [result EXCEPT ![p] =
                     IF outcome = "transport_error" THEN Err(outcome)
                     ELSE Health(outcome = "success_status")]
    /\ UNCHANGED <<mwVars, taskVars, jwtVars, now, cacheVars, op, entry, todo>>

Next ==
    \/ Tick
    \/ Sweep
    \/ \E p \in Callers, q \in Questions : Get(p, q)
    \/ \E p \in Callers, q \in Questions, v \in BOOLEAN : SetCall(p, q, v)
    \/ \E p \in Callers : SetCommit(p)
    \/ \E p \in Callers, q \in Questions : Invalidate(p, q)
    \/ \E p \in Callers, u \in Users : InvalidateUser(p, u)
    \/ \E p \in Callers, o \in Objects : InvalidateObject(p, o)
    \/ \E p \in Callers : Clear(p)
    \/ \E p \in Callers, q \in Questions : CheckStart(p, q)
    \/ \E p \in Callers, outcome \in CheckOutcomes : CheckResponse(p, outcome)
    \/ \E p \in Callers : CheckCommit(p)
    \/ \E p \in Callers, name \in {"write", "delete"}, u \in Users, r \in {<<"e">>}, o \in Objects :
          WriteStart(p, name, u, r, o)
    \/ \E p \in Callers, outcome \in WriteOutcomes : WriteResponse(p, outcome)
    \/ \E p \in Callers : WriteInvalidate(p)
    \/ \E p \in Callers, list \in BatchLists : BatchStart(p, list)
    \/ \E p \in Callers, outcome \in WriteOutcomes : BatchResponse(p, outcome)
    \/ \E p \in Callers : BatchInvalidate(p)
    \/ \E p \in Callers : HealthStart(p)
    \/ \E p \in Callers, outcome \in HealthOutcomes : HealthResponse(p, outcome)

Spec == Init /\ [][Next]_vars

(* ----- the middleware stack ------------------------------------------- *)

HeaderTexts ==
    {Bearer \o <<w>> : w \in DOMAIN WireTokens}
    \cup {<<"B", "a", "s", "i", "c", " ", "x">>,
          <<"G">>,
          <<"b", "e", "a", "r", "e", "r", " ", "G">>,
          <<"B", "e", "a", "r", "e", "r", "G">>,
          Bearer \o <<" ", "G">>,
          Bearer,
          Bearer \o <<"é">>}
Headers == {NoHeader} \cup {HeaderValue(v) : v \in HeaderTexts}

(* request paths, as their segments: without an object id, and with two
   of which the first is taken *)
Paths ==
    {<<<<"d">>, <<"1", "2", "3">>>>,
     <<<<"d">>, <<"1", "2", "3">>, <<"b", "-", "2">>, <<"a", "-", "1">>>>}

Gates ==
    {Gate("none", <<>>, <<>>, <<>>),
     Gate("role", <<"admin">>, <<>>, <<>>),
     Gate("any_role", <<"admin", "ops">>, <<>>, <<>>),
     Gate("any_role", <<>>, <<>>, <<>>),
     Gate("permission", <<>>, <<"v">>, <<"d">>)}
Routes == {Route(a, g) : a \in {"mandatory", "optional"}, g \in Gates}

MwTimePoints == {3661}

InitMw ==
    /\ now = 0
    /\ cache = EmptyCache
    /\ cache_enabled = TRUE
    /\ default_ttl = MaxTtl
    /\ max_entries = MaxCap
    /\ pc = [p \in Procs |-> "idle"]
    /\ op = [p \in Procs |-> NoCall]
    /\ entry = [p \in Procs |-> NoEntry]
    /\ todo = [p \in Procs |-> <<>>]
    /\ result = [p \in Procs |-> NoResult]
    /\ utc = 0
    /\ expiration_hours = 24
    /\ token = NoToken
    /\ issued = NoIssue
    /\ auth = NoAuth
    /\ request = NoRequest
    /\ response = NoResponse
    /\ reclaimer = Task("tick", 0, 0)
    /\ shutdown = FALSE
    /\ lock = NoLock

(* a request enters the stack of its route *)
Arrive(header, path, route) ==
    /\ request.stage \in {"none", "done"}
    /\ request' = Request(header, path, route, NoContext, "auth", Fail("none"), 0)
    /\ response' = NoResponse
    /\ UNCHANGED <<taskVars, jwtVars, now, cacheVars, callVars>>

(* return Err((status, body)) *)
Reject(status, body, by, bearer) ==
    /\ request' = [request EXCEPT !.stage = "done", !.bearer = bearer]
    /\ response' = Response(status, body, by, NoContext)

(* next.run(request): to the route's gate, or to the handler *)
Forward(extensions, stage, bearer) ==
    /\ request' = [request EXCEPT !.extensions = extensions, !.stage = stage, !.bearer = bearer]
    /\ response' = response

AfterAuth(route) == IF route.gate.kind = "none" THEN "handler" ELSE "gate"

(* auth_middleware letting a request through when its token is refused *)
AuthMiddlewareForwardsRefused ==
    /\ request.stage = "auth"
    /\ request.route.auth = "mandatory"
    /\ LET auth_header == authorization(request.header)
           tk == extract_token_from_header(auth_header.value)
           auth_context == extract_auth_context(decode_token(tk.value), utc)
       IN IF ~auth_header.some
          THEN Reject(UNAUTHORIZED, <<"Missing authorization header">>, "auth", Fail("none"))
          ELSE IF ~tk.ok
          THEN Reject(UNAUTHORIZED, <<"Invalid authorization header: ", tk.msg>>, "auth", tk)
          ELSE IF auth_context.kind = "err"
          THEN Forward(request.extensions, AfterAuth(request.route), tk)
          ELSE Forward(Some(auth_context.ctx), AfterAuth(request.route), tk)
    /\ UNCHANGED <<taskVars, jwtVars, now, cacheVars, callVars>>

(* auth_middleware *)
AuthMiddleware ==
    /\ request.stage = "auth"
    /\ request.route.auth = "mandatory"
    /\ LET auth_header == authorization(request.header)
           tk == extract_token_from_header(auth_header.value)
           auth_context == extract_auth_context(decode_token(tk.value), utc)
       IN IF ~auth_header.some
          THEN Reject(UNAUTHORIZED, <<"Missing authorization header">>, "auth", Fail("none"))
          ELSE IF ~tk.ok
          THEN Reject(UNAUTHORIZED, <<"Invalid authorization header: ", tk.msg>>, "auth", tk)
          ELSE IF auth_context.kind = "err"
          THEN Reject(UNAUTHORIZED,
                      <<"Invalid token: ", auth_context.msg, decode_error(decode_token(tk.value), utc)>>,
                      "auth", tk)
          ELSE Forward(Some(auth_context.ctx), AfterAuth(request.route), tk)
    /\ UNCHANGED <<taskVars, jwtVars, now, cacheVars, callVars>>

(* optional_auth_middleware refusing a request whose token is refused *)
OptionalAuthMiddlewareRejects ==
    /\ request.stage = "auth"
    /\ request.route.auth = "optional"
    /\ LET auth_header == authorization(request.header)
           tk == extract_token_from_header(auth_header.value)
           auth_context == extract_auth_context(decode_token(tk.value), utc)
       IN IF auth_header.some /\ tk.ok /\ auth_context.kind = "ok"
          THEN Forward(Some(auth_context.ctx), AfterAuth(request.route), tk)
          ELSE IF auth_header.some /\ tk.ok
          THEN Reject(UNAUTHORIZED, <<"Invalid token: ", auth_context.msg>>, "auth", tk)
          ELSE Forward(request.extensions, AfterAuth(request.route),
                       IF auth_header.some THEN tk ELSE Fail("none"))
    /\ UNCHANGED <<taskVars, jwtVars, now, cacheVars, callVars>>

(* optional_auth_middleware *)
OptionalAuthMiddleware ==
    /\ request.stage = "auth"
    /\ request.route.auth = "optional"
    /\ LET auth_header == authorization(request.header)
           tk == extract_token_from_header(auth_header.value)
           auth_context == extract_auth_context(decode_token(tk.value), utc)
       IN IF auth_header.some /\ tk.ok /\ auth_context.kind = "ok"
          THEN Forward(Some(auth_context.ctx), AfterAuth(request.route), tk)
          ELSE Forward(request.extensions, AfterAuth(request.route),
                       IF auth_header.some THEN tk ELSE Fail("none"))
    /\ UNCHANGED <<taskVars, jwtVars, now, cacheVars, callVars>>

(* require_role(required_role) *)
RequireRole ==
    /\ request.stage = "gate"
    /\ request.route.gate.kind = "role"
    /\ IF ~request.extensions.some
       THEN Reject(UNAUTHORIZED, <<"Authentication required">>, "role", request.bearer)
       ELSE IF ~has_role(request.extensions.value, request.route.gate.roles[1])
       THEN Reject(FORBIDDEN, <<"Required role '", request.route.gate.roles[1], "' not found">>,
                   "role", request.bearer)
       ELSE Forward(request.extensions, "handler", request.bearer)
    /\ UNCHANGED <<taskVars, jwtVars, now, cacheVars, callVars>>

(* require_any_role(required_roles) *)
RequireAnyRole ==
    /\ request.stage = "gate"
    /\ request.route.gate.kind = "any_role"
    /\ IF ~request.extensions.some
       THEN Reject(UNAUTHORIZED, <<"Authentication required">>, "any_role", request.bearer)
       ELSE IF ~has_any_role(request.extensions.value, request.route.gate.roles)
       THEN Reject(FORBIDDEN, <<"One of the required roles ", request.route.gate.roles, " not found">>,
                   "any_role", request.bearer)
       ELSE Forward(request.extensions, "handler", request.bearer)
    /\ UNCHANGED <<taskVars, jwtVars, now, cacheVars, callVars>>

(* require_permission(relation, object_type), up to the call of
   check_permission *)
RequirePermission(p) ==
    /\ request.stage = "gate"
    /\ request.route.gate.kind = "permission"
    /\ LET object_id == extract_object_id_from_request(request.path)
       IN IF ~request.extensions.some
          THEN /\ Reject(UNAUTHORIZED, <<"Authentication required">>, "permission", request.bearer)
               /\ UNCHANGED <<taskVars, jwtVars, now, cacheVars, callVars>>
          ELSE IF ~object_id.some
          THEN /\ Reject(BAD_REQUEST, <<"Object ID not found in request">>, "permission",
                         request.bearer)
               /\ UNCHANGED <<taskVars, jwtVars, now, cacheVars, callVars>>
          ELSE /\ check_permission(p, Question(request.extensions.value.user_id,
                                               request.route.gate.relation,
                                               request.route.gate.object_type, object_id.value))
               /\ Forward(request.extensions, "checking", request.bearer)

(* require_permission letting the request through when the check could
   not be made *)
RequirePermissionReturnFailsOpen(p) ==
    /\ request.stage = "checking"
    /\ pc[p] = "idle"
    /\ op[p].name = "check"
    /\ IF result[p].kind = "err"
       THEN Forward(request.extensions, "handler", request.bearer)
       ELSE IF ~result[p].allowed
       THEN Reject(FORBIDDEN,
                   <<IF result[p].reason = "None" THEN "Permission denied" ELSE result[p].reason>>,
                   "permission", request.bearer)
       ELSE Forward(request.extensions, "handler", request.bearer)
    /\ UNCHANGED <<taskVars, jwtVars, now, cacheVars, callVars>>

(* ... and from its return on *)
RequirePermissionReturn(p) ==
    /\ request.stage = "checking"
    /\ pc[p] = "idle"
    /\ op[p].name = "check"
    /\ IF result[p].kind = "err"
       THEN Reject(INTERNAL_SERVER_ERROR,
                   <<"Authorization check failed: ", "Internal error: ", result[p].msg>>,
                   "permission", request.bearer)
       ELSE IF ~result[p].allowed
       THEN Reject(FORBIDDEN,
                   <<IF result[p].reason = "None" THEN "Permission denied" ELSE result[p].reason>>,
                   "permission", request.bearer)
       ELSE Forward(request.extensions, "handler", request.bearer)
    /\ UNCHANGED <<taskVars, jwtVars, now, cacheVars, callVars>>

(* the downstream handler runs and answers *)
Handler ==
    /\ request.stage = "handler"
    /\ request' = [request EXCEPT !.stage = "done", !.forwarded = request.forwarded + 1]
    /\ response' = Response(200, <<"handler">>, "handler", request.extensions)
    /\ UNCHANGED <<taskVars, jwtVars, now, cacheVars, callVars>>

NextMw ==
    \/ \E t \in MwTimePoints : AdvanceClock(t)
    \/ \E header \in Headers, path \in Paths, route \in Routes : Arrive(header, path, route)
    \/ AuthMiddleware
    \/ OptionalAuthMiddleware
    \/ RequireRole
    \/ RequireAnyRole
    \/ \E p \in Callers : RequirePermission(p)
    \/ \E p \in Callers, outcome \in CheckOutcomes : CheckResponse(p, outcome)
    \/ \E p \in Callers : CheckCommit(p)
    \/ \E p \in Callers : RequirePermissionReturn(p)
    \/ Handler

SpecMw == InitMw /\ [][NextMw]_vars

(* ----- the cleanup task --------------------------------------------- *)

(* The task that OpenFgaService::new spawns, step by step: in Spec a whole
   turn of its loop is the one step Sweep. *)
InitReclaimer ==
    /\ now = 0
    /\ cache = EmptyCache
    /\ cache_enabled = TRUE
    /\ default_ttl \in 0..MaxTtl
    /\ max_entries = MaxCap
    /\ pc = [p \in Procs |-> "idle"]
    /\ op = [p \in Procs |-> NoCall]
    /\ entry = [p \in Procs |-> NoEntry]
    /\ todo = [p \in Procs |-> <<>>]
    /\ result = [p \in Procs |-> NoResult]
    /\ utc = 0
    /\ expiration_hours = 24
    /\ token = NoToken
    /\ issued = NoIssue
    /\ auth = NoAuth
    /\ request = NoRequest
    /\ response = NoResponse
    /\ reclaimer = Task("tick", 0, 0)
    /\ shutdown = FALSE
    /\ lock = NoLock

(* cleanup_task: interval.tick() completes, the task asks for the write lock *)
ReclaimerWake ==
    /\ reclaimer.pc = "tick"
    /\ reclaimer' = [reclaimer EXCEPT !.pc = "lock"]
    /\ UNCHANGED <<shutdown, lock, mwVars, jwtVars, now, cacheVars, callVars>>

(* cleanup_task: the write-locked sweep, then back to interval.tick() *)
ReclaimerSweep ==
    /\ reclaimer.pc = "lock"
    /\ cache' = evict_expired(cache, now)
    /\ reclaimer' = Task("tick", Size(cache) - Size(cache'), Size(cache'))
    /\ UNCHANGED <<shutdown, lock, mwVars, jwtVars, now, default_ttl, max_entries, cache_enabled, callVars>>

(* the last handle of the service is dropped; no call is in progress, none
   can be made any more *)
Shutdown ==
    /\ ~shutdown
    /\ \A p \in Procs : pc[p] = "idle"
    /\ shutdown' = TRUE
    /\ UNCHANGED <<reclaimer, lock, mwVars, jwtVars, now, cacheVars, callVars>>

NextReclaimer ==
    \/ Tick
    \/ ~shutdown /\ \E p \in Callers, q \in Questions, v \in BOOLEAN : SetCall(p, q, v)
    \/ \E p \in Callers : SetCommit(p)
    \/ ReclaimerWake
    \/ ReclaimerSweep
    \/ Shutdown

SpecReclaimer == InitReclaimer /\ [][NextReclaimer]_vars

(* ----- concurrent callers -------------------------------------------- *)

(* Two holders of the service, each call cut at its awaits. Q1 and Q2 are
   about one object under two principals; the mutations are on that
   object. *)
ConcQuestions == {Q1, Q2}

InitConc ==
    /\ now = 0
    /\ cache = EmptyCache
    /\ cache_enabled = TRUE
    /\ default_ttl = MaxTtl
    /\ max_entries \in {1, MaxCap}
    /\ pc = [p \in Procs |-> "idle"]
    /\ op = [p \in Procs |-> NoCall]
    /\ entry = [p \in Procs |-> NoEntry]
    /\ todo = [p \in Procs |-> <<>>]
    /\ result = [p \in Procs |-> NoResult]
    /\ utc = 0
    /\ expiration_hours = 24
    /\ token = NoToken
    /\ issued = NoIssue
    /\ auth = NoAuth
    /\ request = NoRequest
    /\ response = NoResponse
    /\ reclaimer = Task("tick", 0, 0)
    /\ shutdown = FALSE
    /\ lock = NoLock

(* what a dropped call leaves its caller with; `at` is the await it was
   dropped at *)
Cancelled(at) == [kind |-> "cancelled", at |-> at]

(* a drop while waiting for the write lock that leaves the entry behind in
   the map *)
CancelLeavesEntry(p) ==
    /\ pc[p] \in {"check_send", "check_lock"}
    /\ pc' = [pc EXCEPT ![p] = "idle"]
    /\ entry' = [entry EXCEPT ![p] = NoEntry]
    /\ result' = [result EXCEPT ![p] = Cancelled(pc[p])]
    /\ cache' = IF pc[p] = "check_lock" THEN Insert(cache, KeyOf(op[p].q), entry[p]) ELSE cache
    /\ UNCHANGED <<mwVars, taskVars, jwtVars, now, default_ttl, max_entries, cache_enabled, op, todo>>

(* the future of a check_permission call is dropped at one of its awaits:
   its locals, the entry it may have built among them, go with it *)
Cancel(p) ==
    /\ pc[p] \in {"check_send", "check_lock"}
    /\ pc' = [pc EXCEPT ![p] = "idle"]
    /\ entry' = [entry EXCEPT ![p] = NoEntry]
    /\ result' = [result EXCEPT ![p] = Cancelled(pc[p])]
    /\ UNCHANGED <<mwVars, taskVars, jwtVars, now, cacheVars, op, todo>>

NextConc ==
    \/ \E p \in Procs, q \in ConcQuestions : CheckStart(p, q)
    \/ \E p \in Procs, outcome \in CheckOutcomes : CheckResponse(p, outcome)
    \/ \E p \in Procs : CheckCommit(p)
    \/ \E p \in Procs : Cancel(p)
    \/ \E p \in Procs, name \in {"write", "delete"} :
          WriteStart(p, name, U1, <<"v">>, ObjectOf(Q1))
    \/ \E p \in Procs, outcome \in WriteOutcomes : WriteResponse(p, outcome)
    \/ \E p \in Procs : WriteInvalidate(p)

SpecConc == InitConc /\ [][NextConc]_vars

(* ----- the lock around the map --------------------------------------- *)

(* Every operation of PermissionCache cut at `self.cache.read().await` or
   `self.cache.write().await`: two callers and the cleanup task ask for the
   lock, wait their turn, run their section with the guard and drop it. *)
CleanupTask == "cleanup_task"
Tasks == Procs \cup {CleanupTask}
LockQuestions == {Q1}
CacheOps == {"get", "set", "invalidate", "invalidate_user", "invalidate_object", "clear",
             "stats"}

(* get and stats take cache.read(), the others cache.write() *)
LockMode(name) == IF name \in {"get", "stats"} THEN "read" ELSE "write"

TaskPc(t) == IF t = CleanupTask THEN reclaimer.pc ELSE pc[t]

(* a read guard is granted while no write guard is alive, a write guard
   while no guard is *)
CanAcquire(l, mode) == l.writer = "none" /\ (mode = "read" \/ l.readers = {})

Enqueue(l, t, mode) == [l EXCEPT !.waiters = Append(@, Waiter(t, mode))]

Grant(l) ==
    [readers |-> IF Head(l.waiters).mode = "read"
                 THEN l.readers \cup {Head(l.waiters).task} ELSE l.readers,
     writer |-> IF Head(l.waiters).mode = "write" THEN Head(l.waiters).task ELSE l.writer,
     waiters |-> Tail(l.waiters)]

(* the guard of task t goes out of scope *)
Release(l, t) ==
    [l EXCEPT !.readers = @ \ {t}, !.writer = IF @ = t THEN "none" ELSE @]

(* PermissionCache::stats, at instant t *)
stats(c, t, cap, ttl) ==
    [kind |-> "stats",
     total_entries |-> Size(c),
     expired_entries |-> Cardinality({k \in DOMAIN c : is_expired(c[k], t)}),
     active_entries |-> Size(c) - Cardinality({k \in DOMAIN c : is_expired(c[k], t)}),
     max_entries |-> cap,
     default_ttl |-> ttl]

InitLock ==
    /\ now = 0
    /\ cache = EmptyCache
    /\ cache_enabled = TRUE
    /\ default_ttl = MaxTtl
    /\ max_entries = 1
    /\ pc = [p \in Procs |-> "idle"]
    /\ op = [p \in Procs |-> NoCall]
    /\ entry = [p \in Procs |-> NoEntry]
    /\ todo = [p \in Procs |-> <<>>]
    /\ result = [p \in Procs |-> NoResult]
    /\ utc = 0
    /\ expiration_hours = 24
    /\ token = NoToken
    /\ issued = NoIssue
    /\ auth = NoAuth
    /\ request = NoRequest
    /\ response = NoResponse
    /\ reclaimer = Task("tick", 0, 0)
    /\ shutdown = FALSE
    /\ lock = NoLock

(* an operation is called: what it does before the lock (set builds its
   entry), and the task joins the waiters *)
LockCall(p, name, q, v) ==
    /\ pc[p] = "idle"
    /\ op' = [op EXCEPT ![p] = Call(name, q)]
    /\ entry' = IF name = "set"
                THEN [entry EXCEPT ![p] = CacheEntryNew(v, default_ttl, now)]
                ELSE entry
    /\ pc' = [pc EXCEPT ![p] = "lock_wait"]
    /\ result' = [result EXCEPT ![p] = NoResult]
    /\ lock' = Enqueue(lock, p, LockMode(name))
    /\ UNCHANGED <<reclaimer, shutdown, mwVars, jwtVars, now, cacheVars, todo>>

(* cleanup_task: interval.tick() completes, the task asks for the write
   lock *)
LockCleanupWake ==
    /\ reclaimer.pc = "tick"
    /\ reclaimer' = [reclaimer EXCEPT !.pc = "lock_wait"]
    /\ lock' = Enqueue(lock, CleanupTask, "write")
    /\ UNCHANGED <<shutdown, mwVars, jwtVars, now, cacheVars, callVars>>

(* the first waiter gets its guard *)
LockAcquire(t) ==
    /\ lock.waiters # <<>>
    /\ Head(lock.waiters).task = t
    /\ CanAcquire(lock, Head(lock.waiters).mode)
    /\ lock' = Grant(lock)
    /\ IF t = CleanupTask
       THEN /\ reclaimer' = [reclaimer EXCEPT !.pc = "locked"]
            /\ pc' = pc
       ELSE /\ pc' = [pc EXCEPT ![t] = "locked"]
            /\ reclaimer' = reclaimer
    /\ UNCHANGED <<shutdown, mwVars, jwtVars, now, cacheVars, op, entry, todo, result>>

(* what the write-locked section of set reports in this specification: how
   many stale entries it purged and how many it evicted after that *)
Stored(purged, evicted) == [kind |-> "set", purged |-> purged, evicted |-> evicted]

Outcome(c, r) == [map |-> c, result |-> r]

(* what the section of the call of p may leave in the map, and return *)
SectionOutcomes(p) ==
    IF op[p].name = "set"
    THEN {Outcome(set_with_ttl(cache, now, max_entries, KeyOf(op[p].q), entry[p], victims),
                  Stored(Size(cache) - Size(AfterPurge(cache, now, max_entries)),
                         Cardinality(victims))) :
             victims \in Victims(cache, now, max_entries)}
    ELSE IF op[p].name = "get"
    THEN {Outcome(cache, Found(get(cache, now, KeyOf(op[p].q))))}
    ELSE IF op[p].name = "stats"
    THEN {Outcome(cache, stats(cache, now, max_entries, default_ttl))}
    ELSE IF op[p].name = "invalidate"
    THEN {Outcome(invalidate(cache, KeyOf(op[p].q)),
                  Unit(Size(cache) - Size(invalidate(cache, KeyOf(op[p].q))), 0))}
    ELSE IF op[p].name = "invalidate_user"
    THEN {Outcome(invalidate_user(cache, op[p].q.user_id),
                  Unit(Size(cache) - Size(invalidate_user(cache, op[p].q.user_id)), 0))}
    ELSE IF op[p].name = "invalidate_object"
    THEN {Outcome(invalidate_object(cache, op[p].q.object_type, op[p].q.object_id),
                  Unit(Size(cache)
                          - Size(invalidate_object(cache, op[p].q.object_type, op[p].q.object_id)),
                       0))}
    ELSE {Outcome(EmptyCache, Unit(Size(cache), 0))}

(* set asking for the write lock again to purge, its guard still alive *)
LockedSectionPurgeReacquires(p) ==
    /\ pc[p] = "locked"
    /\ IF op[p].name = "set" /\ Size(cache) >= max_entries
       THEN /\ lock' = Enqueue(lock, p, "write")
            /\ pc' = [pc EXCEPT ![p] = "lock_wait"]
            /\ UNCHANGED <<cache, result, entry>>
       ELSE /\ \E o \in SectionOutcomes(p) :
                  /\ cache' = o.map
                  /\ result' = [result EXCEPT ![p] = o.result]
            /\ entry' = [entry EXCEPT ![p] = NoEntry]
            /\ pc' = [pc EXCEPT ![p] = "idle"]
            /\ lock' = Release(lock, p)
    /\ UNCHANGED <<reclaimer, shutdown, mwVars, jwtVars, now, default_ttl, max_entries,
                   cache_enabled, op, todo>>

(* the section of an operation, guard held: there is no await in it that
   yields (evict_expired, awaited by set, takes the map the guard gives and
   has none), and the guard drops at its end *)
LockedSection(p) ==
    /\ pc[p] = "locked"
    /\ \E o \in SectionOutcomes(p) :
          /\ cache' = o.map
          /\ result' = [result EXCEPT ![p] = o.result]
    /\ entry' = [entry EXCEPT ![p] = NoEntry]
    /\ pc' = [pc EXCEPT ![p] = "idle"]
    /\ lock' = Release(lock, p)
    /\ UNCHANGED <<reclaimer, shutdown, mwVars, jwtVars, now, default_ttl, max_entries,
                   cache_enabled, op, todo>>

(* cleanup_task: the sweep, guard held; the guard drops at the end of the
   loop's body and the task is back at interval.tick() *)
LockCleanupSweep ==
    /\ reclaimer.pc = "locked"
    /\ cache' = evict_expired(cache, now)
    /\ reclaimer' = Task("tick", Size(cache) - Size(cache'), Size(cache'))
    /\ lock' = Release(lock, CleanupTask)
    /\ UNCHANGED <<shutdown, mwVars, jwtVars, now, default_ttl, max_entries, cache_enabled,
                   callVars>>

NextLock ==
    \/ Tick
    \/ \E p \in Procs, name \in CacheOps, q \in LockQuestions : LockCall(p, name, q, TRUE)
    \/ LockCleanupWake
    \/ \E t \in Tasks : LockAcquire(t)
    \/ \E p \in Procs : LockedSection(p)
    \/ LockCleanupSweep

(* the runtime polls every task that can go on: a waiter whose turn has
   come gets the guard, a section that holds a guard runs to its end *)
SpecLock ==
    /\ InitLock
    /\ [][NextLock]_vars
    /\ \A t \in Tasks : WF_vars(LockAcquire(t))
    /\ \A p \in Procs : WF_vars(LockedSection(p))
    /\ WF_vars(LockCleanupSweep)

(***************************************************************************)
(* Properties.                                                             *)
(***************************************************************************)
Relations == {<<"v">>, <<"e">>}

(* the keys of every question that can be asked about object o *)
KeysOn(o) == {cache_key(u, r, o.object_type, o.object_id) : u \in Users, r \in Relations}

(* k = <anything> \o tail, spelled out position by position *)
HasTail(k, tail) ==
    /\ Len(k) >= Len(tail)
    /\ \A i \in 1..Len(tail) : k[Len(k) - Len(tail) + i] = tail[i]

(* c2 is c1 without the keys in `gone`, every other entry as it was *)
RemovedExactly(c1, c2, gone) ==
    /\ DOMAIN c2 = DOMAIN c1 \ gone
    /\ \A k \in DOMAIN c2 : c2[k] = c1[k]

Returned(p, names, kind) ==
    /\ pc[p] = "idle"
    /\ op[p].name \in names
    /\ result[p].kind = kind

(* C1: a check whose question has an entry in the cache that has not expired
   returns that entry's answer -- denied with the reason "Permission denied
   (cached)", or allowed with no reason -- sends no request to the remote
   engine and leaves the cache as it is. *)
C1_RepeatedCheckIsServedFromCache ==
    [][\A p \in Procs, q \in Questions :
          (/\ CheckStart(p, q)
           /\ KeyOf(q) \in DOMAIN cache
           /\ now <= cache[KeyOf(q)].expires_at)
          => /\ pc'[p] = "idle"
             /\ result'[p].kind = "decision"
             /\ result'[p].allowed = cache[KeyOf(q)].value
             /\ result'[p].reason = (IF cache[KeyOf(q)].value
                                     THEN "None" ELSE "Permission denied (cached)")
             /\ result'[p].requests = 0
             /\ cache' = cache]_vars

(* a check asked again after its remote denial was cached: answered from the
   cache, the one remote request being the first check's *)
C1_Witness ==
    \E p \in Procs :
        /\ Returned(p, {"check"}, "decision")
        /\ result[p].reason = "Permission denied (cached)"
        /\ result[p].requests = 0
        /\ KeyOf(op[p].q) \in DOMAIN cache

(* C2: the step on which write_relationship / delete_relationship on (T, ID)
   returns success leaves no entry for any principal or relation on (T, ID),
   and a check on that object that the caller makes next misses the cache
   and sends a request to the remote engine. *)
C2_MutationInvalidatesObject ==
    [][\A p \in Procs :
          /\ WriteInvalidate(p)
             => /\ Returned(p, {"write", "delete"}, "unit")'
                /\ \A k \in KeysOn(ObjectOf(op[p].q)) : k \notin DOMAIN cache'
          /\ \A q \in Questions :
                (/\ Returned(p, {"write", "delete"}, "unit")
                 /\ ObjectOf(q) = ObjectOf(op[p].q)
                 /\ CheckStart(p, q))
                => /\ pc'[p] = "check_send"
                   /\ result'[p] = NoResult]_vars

(* a successful mutation that removed an entry cached before it, other
   objects' entries still there *)
C2_Witness ==
    \E p \in Procs :
        /\ Returned(p, {"write", "delete"}, "unit")
        /\ result[p].removed >= 1
        /\ Size(cache) >= 1

(* C3: when the remote call of check, write_relationship,
   delete_relationship or batch_write_relationships fails (transport,
   status, or for check an unparseable body) the call returns an error and
   no step of the call has changed the cache: neither sending the request
   nor receiving the failure adds or removes an entry. *)
Failures == {"transport_error", "status_error", "parse_error"}

C3_FailedRemoteCallLeavesCache ==
    [][\A p \in Procs :
          /\ (pc[p] = "idle" /\ pc'[p] \in {"check_send", "write_send", "batch_send"})
                => cache' = cache
          /\ \A outcome \in Failures :
                (\/ CheckResponse(p, outcome)
                 \/ (outcome # "parse_error" /\ WriteResponse(p, outcome))
                 \/ (outcome # "parse_error" /\ BatchResponse(p, outcome)))
                => /\ pc'[p] = "idle"
                   /\ result'[p].kind = "err"
                   /\ cache' = cache
                   /\ entry'[p] = NoEntry]_vars

(* a check failed on the remote side while the cache held other entries:
   they are still there and the question has none *)
C3_Witness ==
    \E p \in Procs :
        /\ Returned(p, {"check"}, "err")
        /\ Size(cache) >= 1
        /\ KeyOf(op[p].q) \notin DOMAIN cache

(* C4: with a TTL > 0, right after set(Q, v) has inserted its entry -- the
   entry's expiration instant not yet passed -- get(Q) is Some(v), whatever
   the cache held before, a cache at capacity included. *)
C4_SetThenGet ==
    [][\A p \in Procs :
          (/\ SetCommit(p) \/ CheckCommit(p)
           /\ default_ttl > 0
           /\ now <= entry[p].expires_at)
          => get(cache', now', KeyOf(op[p].q)) = Some(entry[p].value)]_vars

(* a set into a full cache that had to evict, and whose answer is readable *)
C4_Witness ==
    \E p \in Procs :
        /\ Returned(p, {"set"}, "unit")
        /\ default_ttl > 0
        /\ max_entries >= 2
        /\ result[p].removed >= 1
        /\ Size(cache) = max_entries
        /\ get(cache, now, KeyOf(op[p].q)) = Some(TRUE)

(* C5: with TTL = 0 every get is a miss, at the instant of the set too, and
   a client with the cache disabled never answers a check from the cache. *)
C5_ZeroTtlNeverHits ==
    /\ default_ttl = 0 => \A q \in Questions : get(cache, now, KeyOf(q)) = None
    /\ ~cache_enabled =>
          \A p \in Procs : ~(Returned(p, {"check"}, "decision") /\ result[p].requests = 0)

(* C6: the map never holds more entries than max_entries. *)
C6_CapacityInvariant == Size(cache) <= max_entries

(* C7: invalidate_object(T, ID) removes exactly the entries whose key ends
   in ":T:ID" and leaves every other entry -- key, answer, expiration -- as
   it was. *)
C7_InvalidateObjectScope ==
    [][\A p \in Procs, o \in Objects :
          InvalidateObject(p, o)
          => RemovedExactly(cache, cache',
                 {k \in DOMAIN cache :
                     HasTail(k, <<":">> \o o.object_type \o <<":">> \o o.object_id)})]_vars

(* two principals' entries on one object removed together, another object's
   entry left *)
C7_Witness ==
    \E p \in Procs :
        /\ Returned(p, {"invalidate_object"}, "unit")
        /\ result[p].removed >= 2
        /\ Size(cache) >= 1

(* C8: invalidate(Q) removes the entry of Q if there is one and nothing
   else; on an absent key it changes nothing; it never fails, and a second
   invalidate(Q) changes nothing. *)
C8_InvalidateExactAndIdempotent ==
    [][\A p \in Procs, q \in Questions :
          Invalidate(p, q)
          => /\ RemovedExactly(cache, cache', {KeyOf(q)})
             /\ KeyOf(q) \notin DOMAIN cache => cache' = cache
             /\ Returned(p, {"invalidate"}, "unit")'
             /\ invalidate(cache', KeyOf(q)) = cache']_vars

(* an invalidate of a key that was not there, in a cache holding others *)
C8_Witness ==
    \E p \in Procs :
        /\ Returned(p, {"invalidate"}, "unit")
        /\ result[p].removed = 0
        /\ Size(cache) >= 2

(* holds from max_entries = 1 on; see C6 *)
CapacityFromOne == max_entries >= 1 => Size(cache) <= max_entries

(* C9: extract_auth_context of a token that generate_token made, with a
   token lifetime > 0 and before the token's exp, is an AuthContext whose
   user_id, email, username and roles are the ones generate_token was
   given. *)
C9_TokenRoundTrip ==
    [][(/\ ExtractAuthContext
        /\ issued.given
        /\ expiration_hours > 0
        /\ utc < token.claims.exp)
       => /\ auth'.kind = "ok"
          /\ auth'.ctx.user_id = issued.user_id
          /\ auth'.ctx.email = issued.email
          /\ auth'.ctx.username = issued.username
          /\ auth'.ctx.roles = issued.roles]_vars

(* a generated token with two roles, verified some time after it was made
   and before it expires *)
C9_Witness ==
    /\ issued.given
    /\ auth.kind = "ok"
    /\ Len(issued.roles) = 2
    /\ auth.at > token.claims.iat
    /\ auth.at < token.claims.exp

(* C10: a correctly signed token verified at an instant after its exp is
   refused with "Invalid token". *)
C10_ExpiredTokenRefused ==
    (/\ auth.kind # "none"
     /\ token.sig = Sign(Secret, "HS256", token.claims)
     /\ token.claims.shape = "claims"
     /\ auth.at > token.claims.exp)
    => auth = AuthErr("Invalid token", auth.at)

(* the header's value is readable text that begins with the seven
   characters of "Bearer " *)
HasBearerPrefix(h) ==
    /\ Len(h) >= 7
    /\ h[1] = "B" /\ h[2] = "e" /\ h[3] = "a" /\ h[4] = "r" /\ h[5] = "e" /\ h[6] = "r"
    /\ h[7] = " "

AuthStep == AuthMiddleware \/ OptionalAuthMiddleware

(* C11: extract_token_from_header(h) succeeds exactly when h begins with
   "Bearer " -- this case, one space -- and then returns h without those
   seven characters, as it is; any other h fails with "Invalid authorization
   header format"; the step that applies it changes nothing but what the
   middleware does with its result. *)
C11_ExtractBearer ==
    [][(AuthStep /\ authorization(request.header).some)
       => /\ IF HasBearerPrefix(request.header.value)
             THEN /\ request'.bearer.ok
                  /\ Bearer \o request'.bearer.value = request.header.value
             ELSE /\ ~request'.bearer.ok
                  /\ request'.bearer.msg = "Invalid authorization header format"
          /\ request'.header = request.header
          /\ UNCHANGED <<taskVars, jwtVars, now, cacheVars, callVars>>]_vars

(* "Bearer  G", two spaces: the remainder keeps the second *)
C11_Witness ==
    /\ request.stage = "done"
    /\ request.bearer.ok
    /\ request.bearer.value = <<" ", "G">>

(* C12: under auth_middleware a request without a readable Authorization
   header, with a header extract_token_from_header refuses, or with a token
   extract_auth_context refuses is answered 401 and never reaches what is
   downstream; a request is downstream of auth_middleware only with the
   identity context of its verified token attached. *)
C12_MandatoryAuth ==
    /\ [][AuthMiddleware
          => LET h == authorization(request.header)
                 refused == \/ ~h.some
                            \/ ~HasBearerPrefix(h.value)
                            \/ extract_auth_context(
                                   decode_token(SubSeq(h.value, 8, Len(h.value))), utc).kind = "err"
             IN /\ refused => /\ response'.status = 401
                              /\ request'.stage = "done"
                              /\ request'.forwarded = 0
                /\ ~refused => request'.stage \in {"gate", "handler"}]_vars
    /\ [](request.route.auth = "mandatory"
          => /\ request.stage = "done" /\ response.status = 401 => request.forwarded = 0
             /\ (request.stage \in {"gate", "checking", "handler"} \/ request.forwarded > 0)
                => /\ request.extensions.some
                   /\ request.bearer.ok
                   /\ LET tk == decode_token(request.bearer.value)
                      IN /\ tk.sig = Sign(Secret, "HS256", tk.claims)
                         /\ UuidToString(request.extensions.value.user_id) = tk.claims.sub
                         /\ request.extensions.value.roles = tk.claims.roles)

(* the token of "Bearer G" presented after it expired: 401, handler not run *)
C12_Witness ==
    /\ request.route.auth = "mandatory"
    /\ request.stage = "done"
    /\ response.status = 401
    /\ request.bearer.ok
    /\ decode_token(request.bearer.value) = WireTokens.G
    /\ request.forwarded = 0

(* C13: optional_auth_middleware never answers itself: it passes every
   request downstream, with an identity context exactly when the
   Authorization header was there, well-formed, and its token verified, and
   with none otherwise; on a route with no gate behind it the handler runs
   exactly once. *)
C13_OptionalAuth ==
    /\ [][OptionalAuthMiddleware
          => LET h == authorization(request.header)
             IN /\ response' = response
                /\ request'.stage = AfterAuth(request.route)
                /\ request'.extensions.some
                   <=> /\ h.some
                       /\ HasBearerPrefix(h.value)
                       /\ extract_auth_context(
                              decode_token(SubSeq(h.value, 8, Len(h.value))), utc).kind = "ok"]_vars
    /\ []((request.route.auth = "optional" /\ request.route.gate.kind = "none"
           /\ request.stage = "done")
          => /\ request.forwarded = 1
             /\ response.by = "handler"
             /\ response.extensions = request.extensions)

(* a forged token on an optional route: the handler ran, without identity *)
C13_Witness ==
    /\ request.route.auth = "optional"
    /\ request.stage = "done"
    /\ response.by = "handler"
    /\ request.forwarded = 1
    /\ ~response.extensions.some
    /\ request.bearer.ok
    /\ decode_token(request.bearer.value) = WireTokens.F

RolesOf(auth_context) == {auth_context.roles[i] : i \in 1..Len(auth_context.roles)}

(* C14: require_role / require_any_role pass a request on only if it has an
   identity context whose roles include the required role, or one of the
   required roles (none, when the two lists are disjoint); an identity
   without it is answered 403 and the handler does not run. *)
C14_RoleGate ==
    [][(RequireRole \/ RequireAnyRole)
       => LET required == {request.route.gate.roles[j] : j \in 1..Len(request.route.gate.roles)}
              holds == /\ request.extensions.some
                       /\ required \cap RolesOf(request.extensions.value) # {}
          IN /\ request'.stage = "handler" <=> holds
             /\ ~holds => /\ request'.stage = "done"
                          /\ request'.forwarded = 0
                          /\ response'.status = (IF request.extensions.some THEN 403 ELSE 401)]_vars

(* a verified user without the admin role on the admin route: 403 *)
C14_Witness ==
    /\ request.route.gate.kind = "role"
    /\ request.stage = "done"
    /\ request.extensions.some
    /\ response.status = 403
    /\ request.forwarded = 0

(* C15: when check_permission answers allowed = false, require_permission
   answers 403 with the decision's reason; when check_permission fails with
   a backend error, it answers 502. *)
C15_RelationshipGateStatuses ==
    [][\A p \in Procs :
          RequirePermissionReturn(p)
          => /\ (result[p].kind = "decision" /\ ~result[p].allowed)
                => /\ response'.status = 403
                   /\ response'.body = <<result[p].reason>>
             /\ result[p].kind = "err" => response'.status = 502]_vars

(* C16: every 401 of auth_middleware is one and the same response -- the
   one a request without an Authorization header gets -- whatever the
   reason the request was refused for. *)
C16_UniformAuthFailure ==
    (request.stage = "done" /\ response.by = "auth" /\ response.status = 401)
    => response = Response(401, <<"Missing authorization header">>, "auth", NoContext)

(* C17: health_check answers true on a success status, false on any other
   status, and an error -- not false -- when the request fails in
   transport; neither of its steps reads from or writes to the cache, and
   no later answer of a check depends on it. *)
C17_HealthCheckOutcomes ==
    [][\A p \in Procs :
          /\ HealthStart(p) => /\ cache' = cache
                               /\ pc'[p] = "health_send"
          /\ \A outcome \in HealthOutcomes :
                HealthResponse(p, outcome)
                => /\ cache' = cache
                   /\ pc'[p] = "idle"
                   /\ outcome = "success_status" => result'[p] = Health(TRUE)
                   /\ outcome = "failure_status" => result'[p] = Health(FALSE)
                   /\ outcome = "transport_error" => result'[p].kind = "err"]_vars

(* the endpoint could not be reached while the cache held entries *)
C17_Witness ==
    \E p \in Procs :
        /\ Returned(p, {"health_check"}, "err")
        /\ Size(cache) >= 1

(* C18: batch_write_relationships with an empty list returns success, sends
   nothing and leaves the cache as it is; with any other list it sends one
   request, and on success every turn of its loop leaves no entry on the
   object it invalidates -- so none on any object of the list when it
   returns -- and leaves the entries of every other object as they were. *)
C18_BatchWrite ==
    [][\A p \in Procs :
          /\ BatchStart(p, <<>>) => /\ result'[p] = Unit(0, 0)
                                    /\ pc'[p] = "idle"
                                    /\ cache' = cache
          /\ \A list \in BatchLists \ {<<>>} :
                BatchStart(p, list) => pc'[p] = "batch_send" /\ cache' = cache
          /\ BatchInvalidate(p)
             => /\ \A k \in KeysOn(Head(todo[p])) : k \notin DOMAIN cache'
                /\ \A q \in Questions :
                      (ObjectOf(q) # Head(todo[p]) /\ KeyOf(q) \in DOMAIN cache)
                      => /\ KeyOf(q) \in DOMAIN cache'
                         /\ cache'[KeyOf(q)] = cache[KeyOf(q)]
                /\ pc'[p] = "idle" => result'[p] = Unit(0, 1)]_vars

(* C19: a sweep of the cleanup task removes every entry whose expiration
   instant has passed when it runs and no other: the map after it is the
   entries that were fresh, each as it was. *)
C19_SweepRemovesExactlyStale ==
    [][ReclaimerSweep
       => RemovedExactly(cache, cache', {k \in DOMAIN cache : cache[k].expires_at < now})]_vars

(* a sweep that found stale and fresh entries side by side *)
C19_Witness ==
    /\ reclaimer.pc = "tick"
    /\ reclaimer.removed >= 1
    /\ reclaimer.kept >= 1
    /\ Size(cache) = reclaimer.kept

(* C20: once shutdown has been signalled, the cleanup task's next wake ends
   its loop: it does not go on to another sweep. *)
C20_ShutdownStopsReclaimer ==
    [][(shutdown /\ reclaimer.pc = "tick") => reclaimer'.pc \in {"tick", "off"}]_vars

(* C21: invalidate_user(P) removes every entry of a question whose
   principal is P, whatever its relation and object, and leaves the entries
   of every other principal as they were; without an entry of P it changes
   nothing. *)
C21_InvalidateUserScope ==
    [][\A p \in Procs, u \in Users :
          InvalidateUser(p, u)
          => /\ RemovedExactly(cache, cache', {KeyOf(q) : q \in {x \in Questions : x.user_id = u}})
             /\ (\A q \in Questions : q.user_id = u => KeyOf(q) \notin DOMAIN cache)
                => cache' = cache]_vars

(* both entries of one principal removed, the other principal's left *)
C21_Witness ==
    \E p \in Procs :
        /\ Returned(p, {"invalidate_user"}, "unit")
        /\ result[p].removed >= 2
        /\ Size(cache) >= 1

(* C22: a token that generate_token made has exp > iat, whatever lifetime
   the service is configured with. *)
C22_ExpiresAfterIssued ==
    issued.given => token.claims.exp > token.claims.iat

(* ----- C23 ------------------------------------------------------------- *)
(* C23: two concurrent checks of one question that both miss the cache are
   not merged: each sends its own request, the second even while the first
   is in flight. When the later of the two stores its decision the cache
   holds one entry for the question, valued as the decision it returns,
   which is the decision the other returned too when the two agree. *)
C23_ConcurrentMissesEachAsk ==
    [][\A p \in Procs : \A q \in ConcQuestions :
          /\ (CheckStart(p, q) /\ ~get(cache, now, KeyOf(q)).some)
                => pc'[p] = "check_send"
          /\ \A o \in Procs \ {p} :
                (/\ CheckCommit(p)
                 /\ op[p].q = q
                 /\ op[o] = Call("check", q)
                 /\ pc[o] = "idle"
                 /\ result[o].kind = "decision"
                 /\ result[o].requests = 1)
                => /\ result'[p].requests = 1
                   /\ KeyOf(q) \in DOMAIN cache'
                   /\ cache'[KeyOf(q)].value = result'[p].allowed
                   /\ (result[o].allowed = result'[p].allowed
                          => cache'[KeyOf(q)].value = result[o].allowed)]_vars

(* both callers asked the engine the same question, one while the other
   was still in flight, both were answered alike and the cache holds that
   answer once *)
C23_Witness ==
    /\ pc["c1"] = "idle" /\ pc["c2"] = "idle"
    /\ op["c1"] = Call("check", Q1) /\ op["c2"] = Call("check", Q1)
    /\ result["c1"].kind = "decision" /\ result["c2"].kind = "decision"
    /\ result["c1"].requests = 1 /\ result["c2"].requests = 1
    /\ result["c1"].overlapped \/ result["c2"].overlapped
    /\ result["c1"].allowed = result["c2"].allowed
    /\ DOMAIN cache = {KeyOf(Q1)}
    /\ cache[KeyOf(Q1)].value = result["c1"].allowed

(* ----- C24 ------------------------------------------------------------- *)
(* C24: a check dropped at an await leaves the cache as it was, and so does
   every step of a check before the write-locked section of cache.set; the
   one step of a check that changes the map is that section, which returns
   with the entry the call built stored under the question's key. *)
C24_CancelledCheckLeavesCache ==
    [][\A p \in Procs :
          /\ Cancel(p) => (cache' = cache /\ entry'[p] = NoEntry)
          /\ (/\ op'[p].name = "check"
              /\ (pc'[p] # pc[p] \/ result'[p] # result[p])
              /\ cache' # cache)
                => /\ pc[p] = "check_lock"
                   /\ pc'[p] = "idle"
                   /\ result'[p].kind = "decision"
                   /\ KeyOf(op[p].q) \in DOMAIN cache'
                   /\ cache'[KeyOf(op[p].q)] = entry[p]
                   /\ Size(cache') <= Size(cache) + 1]_vars

(* a check was dropped while waiting for the write lock, its entry built,
   the map full of other entries: none was evicted and nothing inserted *)
C24_Witness ==
    \E p \in Procs :
        /\ pc[p] = "idle"
        /\ result[p] = Cancelled("check_lock")
        /\ KeyOf(op[p].q) \notin DOMAIN cache
        /\ Size(cache) = max_entries

(* ----- C28 ------------------------------------------------------------- *)
(* C28: a check that starts once the mutations of its object have returned
   is never answered from an entry the engine computed before a mutation it
   has applied since. *)
C28_NoDecisionFromBeforeMutation ==
    [][\A p \in Procs : \A q \in ConcQuestions :
          (/\ CheckStart(p, q)
           /\ get(cache, now, KeyOf(q)).some
           /\ \A o \in Procs : pc[o] \notin {"write_send", "write_lock"})
             => cache[KeyOf(q)].overtaken # "yes"]_vars

(* ----- C26 ------------------------------------------------------------- *)
(* C26: get leaves the map as it is, hit or miss; on an entry whose
   expiration instant has passed it answers None, as for a key that is not
   there, and the entry stays stored with its value and its instant. *)
C26_GetLeavesMap ==
    [][\A p \in Procs, q \in Questions :
          Get(p, q)
            => /\ cache' = cache
               /\ (KeyOf(q) \in DOMAIN cache /\ now > cache[KeyOf(q)].expires_at)
                     => /\ result'[p] = Found(None)
                        /\ KeyOf(q) \in DOMAIN cache'
                        /\ cache'[KeyOf(q)].value = cache[KeyOf(q)].value
                        /\ cache'[KeyOf(q)].expires_at = cache[KeyOf(q)].expires_at
               /\ KeyOf(q) \notin DOMAIN cache => result'[p] = Found(None)]_vars

(* a get answered None for a key whose entry, stale, is in the map still *)
C26_Witness ==
    \E p \in Procs :
        /\ Returned(p, {"get"}, "get")
        /\ result[p].value = None
        /\ KeyOf(op[p].q) \in DOMAIN cache
        /\ now > cache[KeyOf(op[p].q)].expires_at

(* ----- C27 ------------------------------------------------------------- *)
StaleKeys(c, t) == {k \in DOMAIN c : is_expired(c[k], t)}

(* C27: the write-locked section of set, storing under key K at capacity
   max_entries: below capacity no entry is removed; at or above it every
   stale entry goes; a fresh entry goes only when the fresh ones alone
   still fill the capacity, and then as many as leave one slot free, which
   the new entry takes -- the map ends with max_entries entries, or one
   fewer when K's own fresh entry was kept and replaced. What stays is
   unchanged. *)
C27_SetEviction ==
    [][\A p \in Procs :
          (SetCommit(p) \/ CheckCommit(p))
            => /\ Size(cache) < max_entries => DOMAIN cache \subseteq DOMAIN cache'
               /\ Size(cache) >= max_entries
                     => StaleKeys(cache, now) \ {KeyOf(op[p].q)} \subseteq DOMAIN cache \ DOMAIN cache'
               /\ Size(cache) - Cardinality(StaleKeys(cache, now)) < max_entries
                     => DOMAIN cache \ DOMAIN cache' \subseteq StaleKeys(cache, now)
               /\ (/\ Size(cache) >= max_entries
                   /\ Size(cache) - Cardinality(StaleKeys(cache, now)) >= max_entries)
                     => /\ Size(cache') \in {max_entries - 1, max_entries}
                        /\ (KeyOf(op[p].q) \notin DOMAIN cache \ StaleKeys(cache, now)
                               => Size(cache') = max_entries)
               /\ \A k \in DOMAIN cache' \ {KeyOf(op[p].q)} :
                     k \in DOMAIN cache /\ cache'[k] = cache[k]]_vars

(* ----- C29 ------------------------------------------------------------- *)
(* C29: an entry is built to expire the default time to live after the
   instant set is called, and is stored no earlier than that; a check is
   answered from the cache only up to the entry's expiration instant; and
   the instant of a stored entry changes only when a set stores under the
   same key. *)
C29_BoundedStaleness ==
    [][\A p \in Procs :
          /\ \A q \in Questions, v \in BOOLEAN :
                SetCall(p, q, v) => entry'[p].expires_at = now + default_ttl
          /\ \A outcome \in {"allowed", "denied"} :
                CheckResponse(p, outcome) => entry'[p].expires_at = now + default_ttl
          /\ (SetCommit(p) \/ CheckCommit(p))
                => /\ cache'[KeyOf(op[p].q)].expires_at = entry[p].expires_at
                   /\ cache'[KeyOf(op[p].q)].expires_at <= now + default_ttl
          /\ \A q \in Questions :
                (CheckStart(p, q) /\ result'[p].kind = "decision")
                   => /\ KeyOf(q) \in DOMAIN cache
                      /\ now <= cache[KeyOf(q)].expires_at
                      /\ cache[KeyOf(q)].expires_at <= now + default_ttl
                      /\ result'[p].allowed = cache[KeyOf(q)].value
          /\ \A k \in DOMAIN cache \cap DOMAIN cache' :
                cache'[k].expires_at # cache[k].expires_at
                   => \E o \in Procs : /\ SetCommit(o) \/ CheckCommit(o)
                                       /\ KeyOf(op[o].q) = k]_vars

(* a check answered from the cache at the very instant its entry expires,
   a default time to live after it was built *)
C29_Witness ==
    \E p \in Procs :
        /\ Returned(p, {"check"}, "decision")
        /\ result[p].requests = 0
        /\ default_ttl >= 1
        /\ KeyOf(op[p].q) \in DOMAIN cache
        /\ cache[KeyOf(op[p].q)].expires_at = now

(* ----- C30 ------------------------------------------------------------- *)
(* C30: a request on a route gated by a relationship goes on to the handler
   only from the return of check_permission, with an identity in its
   extensions, an object id found in its path, and a decision `allowed`
   for the question (that identity, the route's relation and object type,
   that object id); when the check failed or denied, the request ends
   there with 500 or 403. *)
C30_RelationshipGateFailsClosed ==
    [][/\ (/\ request.route.gate.kind = "permission"
           /\ request.stage # "handler"
           /\ request'.stage = "handler")
            => /\ request.stage = "checking"
               /\ request.extensions.some
               /\ extract_object_id_from_request(request.path).some
               /\ \E p \in Procs :
                     /\ pc[p] = "idle"
                     /\ op[p] = Call("check",
                                     Question(request.extensions.value.user_id,
                                              request.route.gate.relation,
                                              request.route.gate.object_type,
                                              extract_object_id_from_request(request.path).value))
                     /\ result[p].kind = "decision"
                     /\ result[p].allowed
       /\ \A p \in Procs :
             (/\ result[p].kind = "err" \/ (result[p].kind = "decision" /\ ~result[p].allowed)
              /\ RequirePermissionReturn(p))
                => /\ request'.stage = "done"
                   /\ response'.by = "permission"
                   /\ response'.status = IF result[p].kind = "err"
                                         THEN INTERNAL_SERVER_ERROR ELSE FORBIDDEN]_vars

(* the handler answered a request that the relationship gate let through *)
C30_Witness ==
    /\ request.route.gate.kind = "permission"
    /\ request.stage = "done"
    /\ request.forwarded = 1
    /\ response.by = "handler"
    /\ \E p \in Procs : result[p].kind = "decision" /\ result[p].allowed

(* ----- C25 ------------------------------------------------------------- *)
(* a waiter that cannot be granted while no holder of a guard is in a
   section that will drop it *)
LockDeadlocked ==
    /\ lock.waiters # <<>>
    /\ ~CanAcquire(lock, Head(lock.waiters).mode)
    /\ \A t \in lock.readers \cup ({lock.writer} \ {"none"}) : TaskPc(t) # "locked"

(* C25: with two callers and the cleanup task contending, under fair
   scheduling every get, set, invalidate, invalidate_user,
   invalidate_object, clear and stats that was called returns and every
   sweep the cleanup task woke up for completes; and in no reachable state
   do the waiters wait for a guard that nothing will drop. *)
C25_NoOperationBlocks ==
    /\ [](~LockDeadlocked)
    /\ \A p \in Procs : (pc[p] # "idle") ~> (pc[p] = "idle")
    /\ (reclaimer.pc # "tick") ~> (reclaimer.pc = "tick")

(* a set at capacity has purged a stale entry with its guard and returned,
   while the other caller and the cleanup task waited behind it *)
C25_Witness ==
    \E p \in Procs :
        /\ Returned(p, {"set"}, "set")
        /\ result[p].purged >= 1
        /\ Len(lock.waiters) = 2
        /\ lock.readers = {} /\ lock.writer = "none"

====
